---- MODULE Spec2Model ----
(***************************************************************************)
(* Model of the chip-list demo application: the App component (counter,    *)
(* chips, inputValue, its interval timer and its add-chip handler) and its *)
(* three child components ChipList, ChipListMemo and ChipListCusto, each   *)
(* with its useMemo-cached visibleChips, its hidden-chip count and its     *)
(* module-level render counter.                                            *)
(*                                                                         *)
(* A JavaScript string is a sequence of one-character strings.  An         *)
(* optional prop is the empty sequence when absent and a one-element       *)
(* sequence when present.  The identity of the chips array (what React     *)
(* compares) is the number chipsRef.                                       *)
(***************************************************************************)
EXTENDS Integers, Sequences, FiniteSets, TLC

\* ------------------------------------------------------------ bounds
MaxInputLen == 2
MaxRenders == 5
MaxListLen == 3
MaxLimit == 3

\* ------------------------------------------------------------ JavaScript values
Min(a, b) == IF a <= b THEN a ELSE b

Max(a, b) == IF a >= b THEN a ELSE b

Absent == <<>>

Some(x) == <<x>>

\* a ?? d
Coalesce(o, d) == IF o = Absent THEN d ELSE o[1]

\* the truthiness of an optional number: undefined and 0 are falsy
Truthy(o) == o # Absent /\ o[1] # 0

\* Array.prototype.slice(0, n) and String.prototype.slice(0, n)
Slice(s, n) ==
  IF n >= 0 THEN SubSeq(s, 1, Min(n, Len(s)))
  ELSE SubSeq(s, 1, Max(Len(s) + n, 0))

WhiteSpace == {" ", "\t", "\n"}

RECURSIVE TrimStart(_)
TrimStart(s) ==
  IF s # <<>> /\ Head(s) \in WhiteSpace THEN TrimStart(Tail(s)) ELSE s

RECURSIVE TrimEnd(_)
TrimEnd(s) ==
  IF s # <<>> /\ s[Len(s)] \in WhiteSpace
  THEN TrimEnd(SubSeq(s, 1, Len(s) - 1)) ELSE s

\* String.prototype.trim()
Trim(s) == TrimEnd(TrimStart(s))

\* all sequences over S of length at most n
RECURSIVE SeqsUpTo(_, _)
SeqsUpTo(S, n) ==
  IF n = 0 THEN {<<>>}
  ELSE LET R == SeqsUpTo(S, n - 1)
       IN R \cup {Append(r, x) : r \in {q \in R : Len(q) = n - 1}, x \in S}

ELLIPSIS == "U+2026"

\* ------------------------------------------------------------ App.tsx data
ReactJS == <<"R", "e", "a", "c", "t", "J", "S">>

initialSample ==
  << [label |-> ReactJS],
     [label |-> <<"T", "y", "p", "e", "S", "c", "r", "i", "p", "t">>],
     [label |-> <<"P", "e", "r", "f", "o", "r", "m", "a", "n", "c", "e",
                  "O", "p", "t", "i", "m", "i", "z", "a", "t", "i", "o", "n">>],
     [label |-> <<"M", "e", "m", "o", "i", "z", "a", "t", "i", "o", "n">>],
     [label |-> <<"H", "o", "o", "k", "s", "M", "a", "s", "t", "e", "r", "y">>] >>

\* what the user can have in the text input
InputAlphabet == {" ", "a", "A"}

InputTexts ==
  SeqsUpTo(InputAlphabet, MaxInputLen)
    \cup {ReactJS, <<" ">> \o ReactJS \o <<" ">>,
          <<"r", "e", "a", "c", "t", "J", "S">>}

\* the props a caller can hand to a chip list
SampleLabels == {<<>>, <<"a">>, <<"b", "a">>, <<"a", "b", "c">>}

ChipLists == SeqsUpTo({[label |-> l] : l \in SampleLabels}, MaxListLen)

Limits == {Absent} \cup {Some(n) : n \in 0..MaxLimit}

Themes == {Absent, Some("light"), Some("dark"), Some("solarized")}

Variants == {"ChipList", "ChipListMemo", "ChipListCusto"}

Memoized == {"ChipListMemo", "ChipListCusto"}

VARIABLES counter, chips, chipsRef, inputValue,
          maxChips, maxTextLength, theme,
          mounted, lastProps, memo, shown, renderCount

vars == <<counter, chips, chipsRef, inputValue, maxChips, maxTextLength,
          theme, mounted, lastProps, memo, shown, renderCount>>

\* ------------------------------------------------------------ ChipList
\* the useMemo callback
ChipList_visibleChips(cs, mc, mtl) ==
  IF Len(cs) = 0 THEN <<>>
  ELSE LET sliced == IF Truthy(mc) THEN Slice(cs, mc[1]) ELSE cs
       IN [i \in 1..Len(sliced) |->
             IF ~Truthy(mtl) \/ Len(sliced[i].label) <= mtl[1]
             THEN sliced[i].label
             ELSE Append(Slice(sliced[i].label, mtl[1]), ELLIPSIS)]

\* the count without its clamp at 0
ChipList_exceeding_NoClamp(cs, mc) == Len(cs) - Coalesce(mc, Len(cs))

ChipList_exceeding(cs, mc) == Max(Len(cs) - Coalesce(mc, Len(cs)), 0)

\* what the component returns: the empty notice, or the chips and the
\* "N more items" line (moreItems: whether that line is there)
ChipList_view(cs, mc, visibleChips) ==
  IF Len(cs) = 0
  THEN [empty |-> TRUE, labels |-> <<>>, exceeding |-> 0,
        moreItems |-> FALSE, className |-> "light"]
  ELSE LET exceeding == ChipList_exceeding(cs, mc)
       IN [empty |-> FALSE, labels |-> visibleChips, exceeding |-> exceeding,
           moreItems |-> exceeding > 0, className |-> "light"]

\* ------------------------------------------------------------ ChipListMemo
ChipListMemo_visibleChips(cs, mc, mtl) ==
  IF Len(cs) = 0 THEN <<>>
  ELSE LET sliced == IF Truthy(mc) THEN Slice(cs, mc[1]) ELSE cs
       IN [i \in 1..Len(sliced) |->
             IF ~Truthy(mtl) \/ Len(sliced[i].label) <= mtl[1]
             THEN sliced[i].label
             ELSE Append(Slice(sliced[i].label, mtl[1]), ELLIPSIS)]

ChipListMemo_exceeding(cs, mc) == Max(Len(cs) - Coalesce(mc, Len(cs)), 0)

ChipListMemo_view(cs, mc, visibleChips) ==
  IF Len(cs) = 0
  THEN [empty |-> TRUE, labels |-> <<>>, exceeding |-> 0,
        moreItems |-> FALSE, className |-> "light"]
  ELSE LET exceeding == ChipListMemo_exceeding(cs, mc)
       IN [empty |-> FALSE, labels |-> visibleChips, exceeding |-> exceeding,
           moreItems |-> exceeding > 0, className |-> "light"]

\* ------------------------------------------------------------ ChipListCusto
\* truncation of a label of exactly maxTextLength characters too
ChipListCusto_visibleChips_Strict(cs, mc, mtl) ==
  IF Len(cs) = 0 THEN <<>>
  ELSE LET sliced == IF Truthy(mc) THEN Slice(cs, mc[1]) ELSE cs
       IN [i \in 1..Len(sliced) |->
             IF ~Truthy(mtl) \/ Len(sliced[i].label) < mtl[1]
             THEN sliced[i].label
             ELSE Append(Slice(sliced[i].label, mtl[1]), ELLIPSIS)]

ChipListCusto_visibleChips(cs, mc, mtl) ==
  IF Len(cs) = 0 THEN <<>>
  ELSE LET sliced == IF Truthy(mc) THEN Slice(cs, mc[1]) ELSE cs
       IN [i \in 1..Len(sliced) |->
             IF ~Truthy(mtl) \/ Len(sliced[i].label) <= mtl[1]
             THEN sliced[i].label
             ELSE Append(Slice(sliced[i].label, mtl[1]), ELLIPSIS)]

ChipListCusto_exceeding(cs, mc) == Max(Len(cs) - Coalesce(mc, Len(cs)), 0)

\* theme = "light" when the prop is absent
ChipListCusto_view(cs, mc, visibleChips, th) ==
  IF Len(cs) = 0
  THEN [empty |-> TRUE, labels |-> <<>>, exceeding |-> 0,
        moreItems |-> FALSE, className |-> Coalesce(th, "light")]
  ELSE LET exceeding == ChipListCusto_exceeding(cs, mc)
       IN [empty |-> FALSE, labels |-> visibleChips, exceeding |-> exceeding,
           moreItems |-> exceeding > 0, className |-> Coalesce(th, "light")]

\* ------------------------------------------------------------ rendering
visibleChipsOf(v, cs, mc, mtl) ==
  CASE v = "ChipList" -> ChipList_visibleChips(cs, mc, mtl)
    [] v = "ChipListMemo" -> ChipListMemo_visibleChips(cs, mc, mtl)
    [] v = "ChipListCusto" -> ChipListCusto_visibleChips(cs, mc, mtl)

viewOf(v, cs, mc, visibleChips, th) ==
  CASE v = "ChipList" -> ChipList_view(cs, mc, visibleChips)
    [] v = "ChipListMemo" -> ChipListMemo_view(cs, mc, visibleChips)
    [] v = "ChipListCusto" -> ChipListCusto_view(cs, mc, visibleChips, th)

\* the props object of <v chips=... maxChips=... maxTextLength=... [theme=...]>;
\* the chips prop is the array itself, so its identity
PropsOf(v, ref, mc, mtl, th) ==
  [chips |-> ref, maxChips |-> mc, maxTextLength |-> mtl,
   theme |-> IF v = "ChipListCusto" THEN th ELSE Absent]

\* useMemo(() => ..., [chips, maxChips, maxTextLength]): the cached value is
\* kept while every dependency is the same value, the array by identity
useMemo(v, cs, ref, mc, mtl) ==
  IF mounted[v] /\ memo[v].deps = <<ref, mc, mtl>>
  THEN memo[v]
  ELSE [deps |-> <<ref, mc, mtl>>, value |-> visibleChipsOf(v, cs, mc, mtl)]

\* React.memo: the wrapped component is not called again when every prop is
\* the same value as at its last render
\* a component that is not wrapped in React.memo
MemoSkips_Never(v, nextProps) == FALSE

MemoSkips(v, nextProps) ==
  v \in Memoized /\ mounted[v] /\ lastProps[v] = nextProps

\* one pass of the parent's render over child v, its effects included
\* (the effect without dependencies runs renderCount++ after every render)
RenderChild(v, cs, ref, mc, mtl, th) ==
  IF MemoSkips(v, PropsOf(v, ref, mc, mtl, th))
  THEN [lastProps |-> lastProps[v], memo |-> memo[v], shown |-> shown[v],
        renderCount |-> renderCount[v]]
  ELSE LET m == useMemo(v, cs, ref, mc, mtl)
       IN [lastProps |-> PropsOf(v, ref, mc, mtl, th),
           memo |-> m,
           shown |-> viewOf(v, cs, mc, m.value, th),
           renderCount |-> renderCount[v] + 1]

NoProps == PropsOf("ChipList", 0, Absent, Absent, Absent)

NoMemo == [deps |-> <<>>, value |-> <<>>]

NoView == [empty |-> TRUE, labels |-> <<>>, exceeding |-> 0,
           moreItems |-> FALSE, className |-> ""]

\* the first render of child v
MountChild(v, cs, ref, mc, mtl, th) ==
  LET value == visibleChipsOf(v, cs, mc, mtl)
  IN [lastProps |-> PropsOf(v, ref, mc, mtl, th),
      memo |-> [deps |-> <<ref, mc, mtl>>, value |-> value],
      shown |-> viewOf(v, cs, mc, value, th),
      renderCount |-> 1]

\* ------------------------------------------------------------ App
AppMaxChips == 3

AppMaxTextLength == 10

AppTheme == "dark"

\* App's return: the three children get the current chips array
AppRender(cs, ref) ==
  LET r == [v \in Variants |->
              RenderChild(v, cs, ref, maxChips, maxTextLength, theme)]
  IN /\ lastProps' = [v \in Variants |-> r[v].lastProps]
     /\ memo' = [v \in Variants |-> r[v].memo]
     /\ shown' = [v \in Variants |-> r[v].shown]
     /\ renderCount' = [v \in Variants |-> r[v].renderCount]
     /\ UNCHANGED <<mounted, maxChips, maxTextLength, theme>>

\* the state once App and its children have mounted and their effects have run
Init ==
  /\ counter = 0
  /\ chips = initialSample
  /\ chipsRef = 0
  /\ inputValue = <<>>
  /\ maxChips = Some(AppMaxChips)
  /\ maxTextLength = Some(AppMaxTextLength)
  /\ theme = Some(AppTheme)
  /\ mounted = [v \in Variants |-> TRUE]
  /\ LET r == [v \in Variants |->
                 MountChild(v, initialSample, 0, Some(AppMaxChips),
                            Some(AppMaxTextLength), Some(AppTheme))]
     IN /\ lastProps = [v \in Variants |-> r[v].lastProps]
        /\ memo = [v \in Variants |-> r[v].memo]
        /\ shown = [v \in Variants |-> r[v].shown]
        /\ renderCount = [v \in Variants |-> r[v].renderCount]

\* the parent may render again (the model stops at MaxRenders renders)
CanRender == renderCount["ChipList"] < MaxRenders

\* a tick that also resets the text input
TimerTick_ClearsInput ==
  /\ CanRender
  /\ counter' = counter + 1
  /\ inputValue' = <<>>
  /\ UNCHANGED <<chips, chipsRef>>
  /\ AppRender(chips, chipsRef)

\* setInterval callback: setCounter(c => c + 1)
TimerTick ==
  /\ CanRender
  /\ counter' = counter + 1
  /\ UNCHANGED <<chips, chipsRef, inputValue>>
  /\ AppRender(chips, chipsRef)

\* the input's onChange: setInputValue(e.target.value)
onChange ==
  /\ CanRender
  /\ \E value \in InputTexts \ {inputValue} : inputValue' = value
  /\ UNCHANGED <<counter, chips, chipsRef>>
  /\ AppRender(chips, chipsRef)

\* the handler without trim()
handleAddChip_NoTrim ==
  LET trimmed == inputValue
  IN IF trimmed # <<>> /\ ~(\E i \in 1..Len(chips) : chips[i].label = trimmed)
     THEN /\ CanRender
          /\ chips' = chips \o <<[label |-> trimmed]>>
          /\ chipsRef' = chipsRef + 1
          /\ inputValue' = <<>>
          /\ UNCHANGED counter
          /\ AppRender(chips', chipsRef')
     ELSE UNCHANGED vars

\* the handler without the chips.some(...) test
handleAddChip_NoDupCheck ==
  LET trimmed == Trim(inputValue)
  IN IF trimmed # <<>>
     THEN /\ CanRender
          /\ chips' = chips \o <<[label |-> trimmed]>>
          /\ chipsRef' = chipsRef + 1
          /\ inputValue' = <<>>
          /\ UNCHANGED counter
          /\ AppRender(chips', chipsRef')
     ELSE UNCHANGED vars

\* the handler with chips.push(...) in place of a new array
handleAddChip_InPlace ==
  LET trimmed == Trim(inputValue)
  IN IF trimmed # <<>> /\ ~(\E i \in 1..Len(chips) : chips[i].label = trimmed)
     THEN /\ CanRender
          /\ chips' = chips \o <<[label |-> trimmed]>>
          /\ chipsRef' = chipsRef
          /\ inputValue' = <<>>
          /\ UNCHANGED counter
          /\ AppRender(chips', chipsRef')
     ELSE UNCHANGED vars

\* the button's onClick
handleAddChip ==
  LET trimmed == Trim(inputValue)
  IN IF trimmed # <<>> /\ ~(\E i \in 1..Len(chips) : chips[i].label = trimmed)
     THEN /\ CanRender
          /\ chips' = chips \o <<[label |-> trimmed]>>
          /\ chipsRef' = chipsRef + 1
          /\ inputValue' = <<>>
          /\ UNCHANGED counter
          /\ AppRender(chips', chipsRef')
     ELSE UNCHANGED vars

Next == TimerTick \/ onChange \/ handleAddChip

Spec == Init /\ [][Next]_vars

\* ------------------------------------------------------------ a chip list on its own
\* any caller: any chips array and any limits, nothing rendered yet
InitProject ==
  /\ counter = 0
  /\ chips \in ChipLists
  /\ chipsRef = 0
  /\ inputValue = <<>>
  /\ maxChips \in Limits
  /\ maxTextLength \in Limits
  /\ theme \in Themes
  /\ mounted = [v \in Variants |-> FALSE]
  /\ lastProps = [v \in Variants |-> NoProps]
  /\ memo = [v \in Variants |-> NoMemo]
  /\ shown = [v \in Variants |-> NoView]
  /\ renderCount = [v \in Variants |-> 0]

Mount(v) ==
  /\ ~mounted[v]
  /\ LET r == MountChild(v, chips, chipsRef, maxChips, maxTextLength, theme)
     IN /\ mounted' = [mounted EXCEPT ![v] = TRUE]
        /\ lastProps' = [lastProps EXCEPT ![v] = r.lastProps]
        /\ memo' = [memo EXCEPT ![v] = r.memo]
        /\ shown' = [shown EXCEPT ![v] = r.shown]
        /\ renderCount' = [renderCount EXCEPT ![v] = r.renderCount]
  /\ UNCHANGED <<counter, chips, chipsRef, inputValue, maxChips,
                 maxTextLength, theme>>

RenderChipList == Mount("ChipList")

RenderChipListMemo == Mount("ChipListMemo")

RenderChipListCusto == Mount("ChipListCusto")

NextProject == RenderChipList \/ RenderChipListMemo \/ RenderChipListCusto

SpecProject == InitProject /\ [][NextProject]_vars

\* ------------------------------------------------------------ properties
Labels(cs) == {cs[i].label : i \in 1..Len(cs)}

Limit(o, n) == IF o = Absent THEN n ELSE o[1]

\* t is s without its leading and trailing white space
IsTrimOf(t, s) ==
  \E a \in 0..Len(s), b \in 0..Len(s) :
    /\ a + b <= Len(s)
    /\ t = SubSeq(s, a + 1, Len(s) - b)
    /\ \A k \in 1..a : s[k] \in WhiteSpace
    /\ \A k \in (Len(s) - b + 1)..Len(s) : s[k] \in WhiteSpace
    /\ t # <<>> => t[1] \notin WhiteSpace /\ t[Len(t)] \notin WhiteSpace

Trimmed(s) ==
  CHOOSE t \in {SubSeq(s, a, b) : a \in 1..(Len(s) + 1), b \in 0..Len(s)} :
    IsTrimOf(t, s)

\* C1: every rendered variant shows min(length(chips), maxChips if present
\* else length(chips)) labels, for maxChips absent or any integer >= 0.
C1_VisibleCount ==
  \A v \in Variants :
    mounted[v] =>
      Len(shown[v].labels) = Min(Len(chips), Limit(maxChips, Len(chips)))

\* C2: every visible label i is chips[i].label, unchanged when maxTextLength
\* is absent or the label is no longer than it, and otherwise its first
\* maxTextLength characters followed by the one ellipsis character, for
\* maxTextLength absent or any integer >= 0.
C2_TruncationLaw ==
  \A v \in Variants :
    mounted[v] =>
      \A i \in 1..Len(shown[v].labels) :
        /\ i <= Len(chips)
        /\ shown[v].labels[i] =
             IF maxTextLength = Absent
                \/ Len(chips[i].label) <= maxTextLength[1]
             THEN chips[i].label
             ELSE SubSeq(chips[i].label, 1, maxTextLength[1]) \o <<ELLIPSIS>>

\* C3: the hidden count of every rendered variant is
\* max(0, length(chips) - (maxChips if present else length(chips))), never
\* negative, and for the empty list it is 0 with no "more items" line.
C3_HiddenCount ==
  \A v \in Variants :
    mounted[v] =>
      /\ shown[v].exceeding
           = Max(0, Len(chips) - Limit(maxChips, Len(chips)))
      /\ shown[v].exceeding >= 0
      /\ shown[v].moreItems <=> shown[v].exceeding > 0
      /\ chips = <<>> => shown[v].exceeding = 0 /\ ~shown[v].moreItems

C3_Witness ==
  /\ mounted["ChipList"] /\ mounted["ChipListCusto"]
  /\ chips # <<>>
  /\ maxChips # Absent /\ maxChips[1] > Len(chips)
  /\ shown["ChipList"].exceeding = 0

\* C4: a click on Add Chip trims the input text; when the trimmed text is
\* empty or is the label of an existing chip the list is left as it is, and
\* otherwise the new list is the old one followed by one chip with the
\* trimmed text as its label.  Nothing else changes the list.
C4_AddChip ==
  [][(handleAddChip \/ chips' # chips) =>
       LET t == Trimmed(inputValue)
       IN IF t = <<>> \/ t \in Labels(chips)
          THEN chips' = chips
          ELSE /\ Len(chips') = Len(chips) + 1
               /\ \A i \in 1..Len(chips) : chips'[i] = chips[i]
               /\ chips'[Len(chips')] = [label |-> t]]_vars

C4_Witness ==
  /\ Len(chips) > Len(initialSample)
  /\ inputValue # Trimmed(inputValue)
  /\ Trimmed(inputValue) = chips[Len(initialSample) + 1].label

\* C5: the chip list never holds two chips with the same label, nor a label
\* that is empty or starts or ends with white space, and the initial sample
\* stays its prefix.
C5_ListInvariant ==
  /\ \A i, j \in 1..Len(chips) : chips[i].label = chips[j].label => i = j
  /\ \A i \in 1..Len(chips) :
       /\ chips[i].label # <<>>
       /\ chips[i].label[1] \notin WhiteSpace
       /\ chips[i].label[Len(chips[i].label)] \notin WhiteSpace
  /\ Len(chips) >= Len(initialSample)
  /\ SubSeq(chips, 1, Len(initialSample)) = initialSample

C5_Witness ==
  /\ Len(chips) > Len(initialSample)
  /\ inputValue # <<>>
  /\ Trimmed(inputValue) = ReactJS
  /\ counter > 0

\* C6: a timer tick adds exactly 1 to the counter and changes nothing else:
\* not the chip list, not the input text, not what any variant shows.
C6_TickFrame ==
  [][(TimerTick \/ counter' # counter) =>
       /\ counter' = counter + 1
       /\ chips' = chips
       /\ chipsRef' = chipsRef
       /\ inputValue' = inputValue
       /\ \A v \in Variants :
            /\ shown'[v] = shown[v]
            /\ memo'[v].value = memo[v].value]_vars

C6_Witness ==
  /\ counter > 0
  /\ Len(chips) > Len(initialSample)
  /\ inputValue # <<>>
  /\ shown["ChipListMemo"].exceeding = Len(chips) - AppMaxChips

\* C7: the three variants show the same labels and the same hidden count for
\* the same chips and limits, whatever theme ChipListCusto is given.
C7_VariantsAgree ==
  \A v, w \in Variants :
    mounted[v] /\ mounted[w] =>
      /\ shown[v].labels = shown[w].labels
      /\ shown[v].exceeding = shown[w].exceeding
      /\ shown[v].moreItems = shown[w].moreItems
      /\ shown[v].empty = shown[w].empty

C7_Witness ==
  /\ \A v \in Variants : mounted[v]
  /\ theme = Some("solarized")
  /\ shown["ChipListCusto"].className = "solarized"
  /\ shown["ChipListCusto"].exceeding > 0
  /\ \E i \in 1..Len(shown["ChipListCusto"].labels) :
       /\ maxTextLength # Absent
       /\ Len(chips[i].label) = maxTextLength[1]
       /\ shown["ChipListCusto"].labels[i] = chips[i].label

\* C8: after every event and its re-render, what each variant shows is the
\* projection of the parent's current chip list under the current limits,
\* and a change of the list always comes with a new chips array.
Fresh(v) ==
  /\ shown[v].labels = visibleChipsOf(v, chips, maxChips, maxTextLength)
  /\ shown[v] = viewOf(v, chips, maxChips,
                       visibleChipsOf(v, chips, maxChips, maxTextLength),
                       theme)
  /\ memo[v].value = shown[v].labels

C8_NeverStale ==
  /\ [](\A v \in Variants : Fresh(v))
  /\ [][chips' # chips => chipsRef' # chipsRef]_vars

C8_Witness ==
  /\ Len(chips) = Len(initialSample) + 1
  /\ renderCount["ChipListMemo"] = 2
  /\ renderCount["ChipList"] > 3
  /\ counter > 0

\* C9: the render counter of a memoized variant moves, by one, only on a step
\* that replaces the chips array (a successful add) and stays on every tick,
\* keystroke and rejected add, while the counter of ChipList moves by one on
\* every re-render of the parent.
C9_RenderCounts ==
  [][/\ \A v \in Memoized :
          renderCount'[v] =
            IF chips' # chips THEN renderCount[v] + 1 ELSE renderCount[v]
     /\ renderCount'["ChipList"] =
          IF <<counter, chips, inputValue>>' # <<counter, chips, inputValue>>
          THEN renderCount["ChipList"] + 1 ELSE renderCount["ChipList"]
     /\ (TimerTick \/ onChange) =>
          /\ \A v \in Memoized : renderCount'[v] = renderCount[v]
          /\ renderCount'["ChipList"] = renderCount["ChipList"] + 1]_vars

C9_Witness ==
  /\ renderCount["ChipListMemo"] > 1
  /\ renderCount["ChipListCusto"] = renderCount["ChipListMemo"]
  /\ renderCount["ChipList"] > renderCount["ChipListMemo"] + 1
  /\ counter > 0
  /\ inputValue # <<>>

\* C10: for a non-empty chip list the visible labels and the hidden count
\* add up to length(chips), for maxChips absent or any integer >= 0.
C10_AllAccounted ==
  \A v \in Variants :
    mounted[v] /\ chips # <<>> =>
      Len(shown[v].labels) + shown[v].exceeding = Len(chips)

====
